---- MODULE Spec2Model ----
(***************************************************************************)
(* Model of the multi-model transcription server                           *)
(* (src/Python/transcription_server.py) together with the provider         *)
(* factory (src/Python/stt.py), the configuration object                   *)
(* (src/Python/config.py), the Whisper adapter                             *)
(* (src/stt-server-py/whisper_STTProvider.py) and the LLM refinement step  *)
(* (src/stt-server-py/llm_processor.py).                                   *)
(*                                                                         *)
(* Python dictionaries are functions whose domain is the set of keys that  *)
(* are present.  Text is a sequence of one-character strings so that       *)
(* str.strip() is computed, not assumed.  A dictionary that two objects    *)
(* share (the `whisper` section of the loaded document and the adapter     *)
(* built from it) is modelled by a reference flag on the adapter.          *)
(***************************************************************************)
EXTENDS Integers, Sequences, FiniteSets, TLC

VARIABLES
    phase,         \* progress of create_app: "boot", "serving" or "failed"
    config,        \* Config.config, the loaded document (section -> option bag)
    stt_provider,  \* MultiModelTranscriptionServer.stt_provider
    llm,           \* MultiModelTranscriptionServer.llm
    made,          \* number of adapters constructed so far (adapter identity)
    inflight,      \* per handler: how many calls are suspended in `await request.json()`
    handled,       \* number of requests that have been answered
    last           \* what the most recently completed handler saw and answered

vars == <<phase, config, stt_provider, llm, made, inflight, handled, last>>

----------------------------------------------------------------------------
(* Bounds of the exploration *)

\* handler calls that can be suspended in `await request.json()` at once
MaxInflight == 2
\* requests answered in one run
MaxRequests == 2

----------------------------------------------------------------------------
(* Python values *)

None == "None"
EmptyBag == <<>>
Space == " "

\* dict.get(key, default)
Get(d, k, dflt) == IF k \in DOMAIN d THEN d[k] ELSE dflt

\* dict.update(other), as a value
Update(d, other) ==
    [k \in DOMAIN d \cup DOMAIN other |-> IF k \in DOMAIN other THEN other[k] ELSE d[k]]

\* Fault variant of Truthy: `is not None` instead of truthiness, so that an
\* empty string passes
Truthy_is_not_none(v) == v # None

\* Python truthiness of an optional string
Truthy(v) == v # None /\ v # ""

RECURSIVE LStrip(_)
LStrip(t) == IF t # <<>> /\ Head(t) = Space THEN LStrip(Tail(t)) ELSE t

RECURSIVE RStrip(_)
RStrip(t) ==
    IF t # <<>> /\ t[Len(t)] = Space THEN RStrip(SubSeq(t, 1, Len(t) - 1)) ELSE t

\* str.strip()
Strip(t) == RStrip(LStrip(t))

NoError == [type |-> "none", msg |-> <<>>]
NoProvider == [kind |-> "NoneType"]
NoLLM == [kind |-> "NoneType"]

----------------------------------------------------------------------------
(* The environment: model files, audio files *)

\* model names whisper.load_model can load
LoadableModels == {"small", "base"}

\* whisper.load_model(name): fails for an unknown name, and may fail for a
\* known one (download, memory), which is the caller's input load_ok
load_model(model_name, load_ok) == load_ok /\ model_name \in LoadableModels

\* audio files on disk
ExistingFiles == {"sample.wav"}

\* Path(p).exists(); Path("") is the current directory, which exists
PathExists(p) == p = "" \/ p \in ExistingFiles

----------------------------------------------------------------------------
(* src/Python/config.py *)

\* Config.whisper: the section's own dictionary when the document has one,
\* otherwise a fresh empty dictionary that nothing else refers to.
ConfigWhisper(cfg) ==
    IF "whisper" \in DOMAIN cfg
    THEN [shared |-> TRUE, bag |-> cfg["whisper"]]
    ELSE [shared |-> FALSE, bag |-> EmptyBag]

\* Fault variant of Config.llm: the property reads a section name the
\* document never has and so always returns the empty default
ConfigLLM_reads_wrong_section(cfg) == EmptyBag

\* Config.llm
ConfigLLM(cfg) == Get(cfg, "llm", EmptyBag)

\* Fault variant of the update in reload_model_handler: the options are
\* written into the llm section, self.config.llm.update(new_config)
WhisperUpdate_writes_llm_section(cfg, new_config) ==
    IF "llm" \in DOMAIN cfg
    THEN [cfg EXCEPT !["llm"] = Update(@, new_config)]
    ELSE cfg

\* self.config.whisper.update(new_config): updates the section's dictionary in
\* place; without a section it updates the fresh dictionary, which is dropped.
WhisperUpdate(cfg, new_config) ==
    IF "whisper" \in DOMAIN cfg
    THEN [cfg EXCEPT !["whisper"] = Update(@, new_config)]
    ELSE cfg

----------------------------------------------------------------------------
(* src/stt-server-py/whisper_STTProvider.py *)

\* The dictionary an adapter holds as self.config, read through the reference.
ProviderConfig(a, cfg) == IF a.shared THEN cfg["whisper"] ELSE a.own

\* The four engine options as the adapter resolves them (lines 24, 48-50).
EngineOptions(bag) ==
    [model       |-> Get(bag, "model", "small"),
     language    |-> Get(bag, "language", "en"),
     task        |-> Get(bag, "task", "transcribe"),
     temperature |-> Get(bag, "temperature", "0.0")]

\* Fault variant of WhisperProvider: _load_model logs the load error and does
\* not re-raise, so the caller receives an object whose model is None
WhisperProvider_swallows_load_error(ref, id, load_ok) ==
    LET model_name == Get(ref.bag, "model", "small") IN
    [ok |-> TRUE,
     adapter |-> [kind   |-> "WhisperProvider",
                  id     |-> id,
                  model  |-> IF load_model(model_name, load_ok) THEN model_name ELSE None,
                  shared |-> ref.shared,
                  own    |-> IF ref.shared THEN EmptyBag ELSE ref.bag,
                  built  |-> EngineOptions(ref.bag)],
     error |-> NoError]

\* WhisperProvider.__init__ and _load_model: self.config = config (the caller's
\* dictionary, not a copy), then the model is loaded; a load error propagates
\* and no object results.  `built` remembers the options at construction.
WhisperProvider(ref, id, load_ok) ==
    LET model_name == Get(ref.bag, "model", "small") IN
    IF load_model(model_name, load_ok)
    THEN [ok |-> TRUE,
          adapter |-> [kind   |-> "WhisperProvider",
                       id     |-> id,
                       model  |-> model_name,
                       shared |-> ref.shared,
                       own    |-> IF ref.shared THEN EmptyBag ELSE ref.bag,
                       built  |-> EngineOptions(ref.bag)],
          error |-> NoError]
    ELSE [ok |-> FALSE, adapter |-> NoProvider,
          error |-> [type |-> "RuntimeError",
                     msg |-> <<"cannot load model ", model_name>>]]

----------------------------------------------------------------------------
(* src/Python/stt.py *)

\* Fault variant of STT.create_provider: a name that is not registered falls
\* back to the default kind instead of raising
create_provider_defaults_to_whisper(provider_type, ref, id, load_ok) ==
    WhisperProvider(ref, id, load_ok)

\* STT.create_provider
create_provider(provider_type, ref, id, load_ok) ==
    IF provider_type = "whisper"
    THEN WhisperProvider(ref, id, load_ok)
    ELSE [ok |-> FALSE, adapter |-> NoProvider,
          error |-> [type |-> "ValueError",
                     msg |-> <<"Unknown STT provider: ", provider_type>>]]

----------------------------------------------------------------------------
(* src/stt-server-py/whisper_STTProvider.py, WhisperProvider.transcribe *)

\* What self.model.transcribe can do: raise, or return result["text"]
EngineTexts == {<<>>, <<" ">>, <<" ", "h", "i", " ">>}
EngineErrors == {<<"out of memory">>, <<"decode error">>}
EngineOutcomes ==
    {[raises |-> TRUE, text |-> <<>>, msg |-> e] : e \in EngineErrors}
    \cup {[raises |-> FALSE, text |-> t, msg |-> <<>>] : t \in EngineTexts}

\* Fault variant of WhisperProvider.transcribe: an engine error is logged and
\* an empty text returned in its place
provider_transcribe_swallows_engine_error(a, audio_path, engine) ==
    IF a = NoProvider \/ a.model = None
    THEN [ok |-> FALSE, text |-> <<>>,
          error |-> [type |-> "AttributeError", msg |-> <<"'NoneType' object has no attribute 'transcribe'">>]]
    ELSE IF ~PathExists(audio_path)
    THEN [ok |-> FALSE, text |-> <<>>,
          error |-> [type |-> "FileNotFoundError", msg |-> <<"Audio file not found: ", audio_path>>]]
    ELSE IF engine.raises
    THEN [ok |-> TRUE, text |-> <<>>, error |-> NoError]
    ELSE [ok |-> TRUE, text |-> Strip(engine.text), error |-> NoError]

\* self.stt_provider.transcribe(audio_path): an attribute error on None or on an
\* adapter whose model was never loaded, FileNotFoundError for a missing file,
\* the engine's own error re-raised, else the stripped text.
provider_transcribe(a, audio_path, engine) ==
    IF a = NoProvider \/ a.model = None
    THEN [ok |-> FALSE, text |-> <<>>,
          error |-> [type |-> "AttributeError", msg |-> <<"'NoneType' object has no attribute 'transcribe'">>]]
    ELSE IF ~PathExists(audio_path)
    THEN [ok |-> FALSE, text |-> <<>>,
          error |-> [type |-> "FileNotFoundError", msg |-> <<"Audio file not found: ", audio_path>>]]
    ELSE IF engine.raises
    THEN [ok |-> FALSE, text |-> <<>>,
          error |-> [type |-> "RuntimeError", msg |-> engine.msg]]
    ELSE [ok |-> TRUE, text |-> Strip(engine.text), error |-> NoError]

----------------------------------------------------------------------------
(* src/stt-server-py/llm_processor.py and src/Python/llm_processor.py *)

\* A prompt template is a sequence of tokens: literal characters and
\* replacement fields.  TextField is "{text}", OtherField any other field.
TextField == "{text}"
OtherField == "{style}"

\* str.format(text=text): substitutes the text field, KeyError on another field
RECURSIVE Format(_, _)
Format(template, text) ==
    IF template = <<>> THEN [ok |-> TRUE, value |-> <<>>]
    ELSE IF Head(template) = OtherField THEN [ok |-> FALSE, value |-> <<>>]
    ELSE LET rest == Format(Tail(template), text) IN
         IF ~rest.ok THEN rest
         ELSE IF Head(template) = TextField
              THEN [ok |-> TRUE, value |-> text \o rest.value]
              ELSE [ok |-> TRUE, value |-> <<Head(template)>> \o rest.value]

\* self.default_prompt of src/Python/llm_processor.py, abridged to its shape
default_prompt == <<"T", ":", TextField, "I", ":">>

\* LLMProcessor.__init__; variant names the file the class is imported from
LLMProcessor(bag, variant) ==
    [kind        |-> "LLMProcessor",
     variant     |-> variant,
     config      |-> bag,
     model       |-> Get(bag, "model", IF variant = "lean" THEN "llama3.1" ELSE "llama2"),
     temperature |-> Get(bag, "temperature", "0.1")]

\* LLMProcessor._generate_prompt, both files
generate_prompt(self, text) ==
    IF self.variant = "lean"
    THEN LET configured == Get(self.config, "prompt", <<>>) IN
         Format(IF configured # <<>> THEN configured ELSE <<TextField>>, text)
    ELSE Format(Get(self.config, "prompt", default_prompt), text)

\* What the Ollama backend does during one call of process
Probes == {"200", "503", "unreachable"}
Gens == {"200", "500", "timeout"}
Payloads ==
    {[json |-> FALSE, doc |-> EmptyBag], [json |-> TRUE, doc |-> EmptyBag]}
    \cup {[json |-> TRUE, doc |-> [response |-> r]] :
             r \in {<<>>, <<" ">>, <<" ", "H", "i", ".", " ">>}}
DefaultPayload == [json |-> TRUE, doc |-> EmptyBag]
Backends ==
    {b \in [probe : Probes, gen : Gens, payload : Payloads] :
        /\ b.probe # "200" => b.gen = "200"
        /\ (b.probe # "200" \/ b.gen # "200") => b.payload = DefaultPayload}

\* Fault variant of _check_ollama_connection: any answer of the backend
\* counts as reachable, whatever its status
check_ollama_connection_any_status(backend) == backend.probe # "unreachable"

\* LLMProcessor._check_ollama_connection
check_ollama_connection(backend) == backend.probe = "200"

\* Fault variant of the try block: the status of the generation response is
\* not tested, its body is used whatever the status
process_try_ignores_status(self, text, backend) ==
    IF ~Get(self.config, "enabled", TRUE)
    THEN [raised |-> FALSE, result |-> text, calls |-> <<>>]
    ELSE IF ~check_ollama_connection(backend)
    THEN [raised |-> FALSE, result |-> text, calls |-> <<"tags">>]
    ELSE LET prompt == generate_prompt(self, text) IN
    IF ~prompt.ok
    THEN [raised |-> TRUE, result |-> <<>>, calls |-> <<"tags">>]
    ELSE IF backend.gen = "timeout"
    THEN [raised |-> TRUE, result |-> <<>>, calls |-> <<"tags", "generate">>]
    ELSE IF ~backend.payload.json
    THEN [raised |-> TRUE, result |-> <<>>, calls |-> <<"tags", "generate">>]
    ELSE LET processed_text == Strip(Get(backend.payload.doc, "response", <<>>)) IN
         IF processed_text = <<>>
         THEN [raised |-> FALSE, result |-> text, calls |-> <<"tags", "generate">>]
         ELSE [raised |-> FALSE, result |-> processed_text, calls |-> <<"tags", "generate">>]

\* The try block of LLMProcessor.process: what it returns or that it raised,
\* and the backend calls it issued, in order.
process_try(self, text, backend) ==
    IF ~Get(self.config, "enabled", TRUE)
    THEN [raised |-> FALSE, result |-> text, calls |-> <<>>]
    ELSE IF ~check_ollama_connection(backend)
    THEN [raised |-> FALSE, result |-> text, calls |-> <<"tags">>]
    ELSE LET prompt == generate_prompt(self, text) IN
    IF ~prompt.ok
    THEN [raised |-> TRUE, result |-> <<>>, calls |-> <<"tags">>]
    ELSE IF backend.gen = "timeout"
    THEN [raised |-> TRUE, result |-> <<>>, calls |-> <<"tags", "generate">>]
    ELSE IF backend.gen # "200"
    THEN [raised |-> TRUE, result |-> <<>>, calls |-> <<"tags", "generate">>]
    ELSE IF ~backend.payload.json
    THEN [raised |-> TRUE, result |-> <<>>, calls |-> <<"tags", "generate">>]
    ELSE LET processed_text == Strip(Get(backend.payload.doc, "response", <<>>)) IN
         IF processed_text = <<>>
         THEN [raised |-> FALSE, result |-> text, calls |-> <<"tags", "generate">>]
         ELSE [raised |-> FALSE, result |-> processed_text, calls |-> <<"tags", "generate">>]

\* Fault variant of process: no `except` clause, an error leaves the method
process_without_except(self, text, backend) == process_try(self, text, backend)

\* Fault variant of process: the `if not processed_text` test is missing, an
\* empty response replaces the text
process_keeps_empty(self, text, backend) ==
    LET r == process_try(self, text, backend)
        processed_text == Strip(Get(backend.payload.doc, "response", <<>>))
    IN  IF r.raised
        THEN [raised |-> FALSE, result |-> text, calls |-> r.calls]
        ELSE IF Len(r.calls) = 2 THEN [r EXCEPT !.result = processed_text]
        ELSE r

\* LLMProcessor.process: the try block, and `except Exception: return text`
process(self, text, backend) ==
    LET r == process_try(self, text, backend) IN
    IF r.raised
    THEN [raised |-> FALSE, result |-> text, calls |-> r.calls]
    ELSE r

----------------------------------------------------------------------------
(* src/Python/transcription_server.py *)

\* The fields of MultiModelTranscriptionServer, as one value
Session == [config |-> config, stt_provider |-> stt_provider, llm |-> llm, made |-> made]

\* what yaml.safe_load returns for an empty file or one of comments only:
\* None, which Config keeps as its document
NullDocument == [yaml_null |-> TRUE]

\* a body request.json() cannot parse: the await raises inside the try block
InvalidBody == [invalid_json |-> TRUE]

Response(status, body) == [status |-> status, body |-> body]
ErrorResponse(status, msg) == Response(status, [error |-> msg])

NoRefine == [called |-> FALSE, text |-> <<>>,
             backend |-> [probe |-> "200", gen |-> "200", payload |-> DefaultPayload],
             result |-> <<>>, raised |-> FALSE, calls |-> <<>>]

\* what a handler hands back: the session afterwards, the response, and for
\* /transcribe the adapter that ran, the engine's text and the refinement call
Outcome(s, resp) ==
    [s |-> s, resp |-> resp, used |-> NoProvider, ran |-> FALSE, heard |-> FALSE,
     raw |-> <<>>, refine |-> NoRefine]

\* Fault variant of _get_current_provider: the isinstance test never matches
get_current_provider_never_matches(s) == "unknown"

\* MultiModelTranscriptionServer._get_current_provider
get_current_provider(s) ==
    IF s.stt_provider.kind = "WhisperProvider" THEN "whisper" ELSE "unknown"

\* MultiModelTranscriptionServer._get_provider_config
get_provider_config(s, provider) ==
    IF provider = "whisper"
    THEN ConfigWhisper(s.config)
    ELSE [shared |-> FALSE, bag |-> EmptyBag]

\* Fault variant of initialize_models: a construction error is caught and
\* logged ("with fallback"), and startup goes on without an adapter
initialize_models_swallows_error(cfg, load_ok, variant) ==
    LET stt_config       == Get(cfg, "stt", EmptyBag)
        primary_provider == Get(stt_config, "provider", "whisper")
        provider_config  == IF primary_provider = "whisper"
                            THEN ConfigWhisper(cfg)
                            ELSE [shared |-> FALSE, bag |-> EmptyBag]
        c                == create_provider(primary_provider, provider_config, 1, load_ok)
    IN  [ok |-> TRUE,
         s |-> [config |-> cfg, stt_provider |-> c.adapter,
                llm |-> IF Get(ConfigLLM(cfg), "enabled", TRUE)
                        THEN LLMProcessor(ConfigLLM(cfg), variant)
                        ELSE NoLLM,
                made |-> IF c.ok THEN 1 ELSE 0],
         error |-> NoError]

\* MultiModelTranscriptionServer.__init__ and initialize_models; on a None
\* document the first self.config.config.get raises AttributeError
initialize_models(cfg, load_ok, variant) ==
    IF cfg = NullDocument
    THEN [ok |-> FALSE,
          s |-> [config |-> cfg, stt_provider |-> NoProvider, llm |-> NoLLM, made |-> 0],
          error |-> [type |-> "AttributeError",
                     msg |-> <<"'NoneType' object has no attribute 'get'">>]]
    ELSE
    LET stt_config       == Get(cfg, "stt", EmptyBag)
        primary_provider == Get(stt_config, "provider", "whisper")
        provider_config  == IF primary_provider = "whisper"
                            THEN ConfigWhisper(cfg)
                            ELSE [shared |-> FALSE, bag |-> EmptyBag]
        c                == create_provider(primary_provider, provider_config, 1, load_ok)
    IN  IF ~c.ok
        THEN [ok |-> FALSE,
              s |-> [config |-> cfg, stt_provider |-> NoProvider, llm |-> NoLLM, made |-> 0],
              error |-> c.error]
        ELSE [ok |-> TRUE,
              s |-> [config |-> cfg, stt_provider |-> c.adapter,
                     llm |-> IF Get(ConfigLLM(cfg), "enabled", TRUE)
                             THEN LLMProcessor(ConfigLLM(cfg), variant)
                             ELSE NoLLM,
                     made |-> 1],
              error |-> NoError]

\* Fault variant of switch_provider_handler: the old adapter is released
\* before the new one is constructed, and a failed construction leaves None
switch_provider_handler_releases_first(s, data, load_ok) ==
    IF data = InvalidBody
    THEN Outcome(s, ErrorResponse(500, <<"invalid JSON">>))
    ELSE LET new_provider == Get(data, "provider", None) IN
    IF ~Truthy(new_provider)
    THEN Outcome(s, ErrorResponse(400, <<"Provider not specified">>))
    ELSE LET provider_config == get_provider_config(s, new_provider)
             c == create_provider(new_provider, provider_config, s.made + 1, load_ok)
         IN  IF ~c.ok
             THEN Outcome([s EXCEPT !.stt_provider = NoProvider], ErrorResponse(500, c.error.msg))
             ELSE Outcome([s EXCEPT !.stt_provider = c.adapter, !.made = @ + 1],
                          Response(200, [message  |-> <<"Switched to ", new_provider>>,
                                         provider |-> new_provider]))

\* MultiModelTranscriptionServer.switch_provider_handler
switch_provider_handler(s, data, load_ok) ==
    IF data = InvalidBody
    THEN Outcome(s, ErrorResponse(500, <<"invalid JSON">>))
    ELSE LET new_provider == Get(data, "provider", None) IN
    IF ~Truthy(new_provider)
    THEN Outcome(s, ErrorResponse(400, <<"Provider not specified">>))
    ELSE LET provider_config == get_provider_config(s, new_provider)
             c == create_provider(new_provider, provider_config, s.made + 1, load_ok)
         IN  IF ~c.ok
             THEN Outcome(s, ErrorResponse(500, c.error.msg))
             ELSE Outcome([s EXCEPT !.stt_provider = c.adapter, !.made = @ + 1],
                          Response(200, [message  |-> <<"Switched to ", new_provider>>,
                                         provider |-> new_provider]))

\* Fault variant of new_config: the in-memory value wins over the request's
reload_config_prefers_memory(s, data) ==
    LET whisper == ConfigWhisper(s.config).bag IN
    [model       |-> Get(whisper, "model", Get(data, "model", "small")),
     language    |-> Get(whisper, "language", Get(data, "language", "en")),
     task        |-> Get(whisper, "task", Get(data, "task", "transcribe")),
     temperature |-> Get(whisper, "temperature", Get(data, "temperature", "0.0"))]

\* new_config of reload_model_handler: the request's value, else the value in
\* the in-memory section, else the default
reload_config(s, data) ==
    LET whisper == ConfigWhisper(s.config).bag IN
    [model       |-> Get(data, "model", Get(whisper, "model", "small")),
     language    |-> Get(data, "language", Get(whisper, "language", "en")),
     task        |-> Get(data, "task", Get(whisper, "task", "transcribe")),
     temperature |-> Get(data, "temperature", Get(whisper, "temperature", "0.0"))]

\* Fault variant of reload_model_handler: a failed construction falls back to
\* an adapter built from the defaults instead of keeping the active one
reload_model_handler_falls_back(s, data, load_ok) ==
    IF data = InvalidBody
    THEN Outcome(s, ErrorResponse(500, <<"invalid JSON">>))
    ELSE LET new_config == reload_config(s, data)
             updated == [s EXCEPT !.config = WhisperUpdate(s.config, new_config)]
             c == WhisperProvider([shared |-> FALSE, bag |-> new_config], s.made + 1, load_ok)
             d == WhisperProvider([shared |-> FALSE, bag |-> EmptyBag], s.made + 1, TRUE)
         IN  IF ~c.ok
             THEN Outcome([updated EXCEPT !.stt_provider = d.adapter, !.made = @ + 1],
                          ErrorResponse(500, c.error.msg))
             ELSE Outcome([updated EXCEPT !.stt_provider = c.adapter, !.made = @ + 1],
                          Response(200, [message  |-> <<"Model reloaded successfully">>,
                                         config   |-> new_config,
                                         provider |-> "whisper"]))

\* Fault variant of reload_model_handler: the adapter is built from a copy of
\* the in-memory section taken before the section is updated
reload_model_handler_builds_stale(s, data, load_ok) ==
    IF data = InvalidBody
    THEN Outcome(s, ErrorResponse(500, <<"invalid JSON">>))
    ELSE LET new_config == reload_config(s, data)
             stale   == ConfigWhisper(s.config).bag
             updated == [s EXCEPT !.config = WhisperUpdate(s.config, new_config)]
             c == WhisperProvider([shared |-> FALSE, bag |-> stale], s.made + 1, load_ok)
         IN  IF ~c.ok
             THEN Outcome(updated, ErrorResponse(500, c.error.msg))
             ELSE Outcome([updated EXCEPT !.stt_provider = c.adapter, !.made = @ + 1],
                          Response(200, [message  |-> <<"Model reloaded successfully">>,
                                         config   |-> new_config,
                                         provider |-> "whisper"]))

\* MultiModelTranscriptionServer.reload_model_handler
reload_model_handler(s, data, load_ok) ==
    IF data = InvalidBody
    THEN Outcome(s, ErrorResponse(500, <<"invalid JSON">>))
    ELSE LET new_config == reload_config(s, data)
             updated == [s EXCEPT !.config = WhisperUpdate(s.config, new_config)]
             c == WhisperProvider([shared |-> FALSE, bag |-> new_config], s.made + 1, load_ok)
         IN  IF ~c.ok
             THEN Outcome(updated, ErrorResponse(500, c.error.msg))
             ELSE Outcome([updated EXCEPT !.stt_provider = c.adapter, !.made = @ + 1],
                          Response(200, [message  |-> <<"Model reloaded successfully">>,
                                         config   |-> new_config,
                                         provider |-> "whisper"]))

\* Fault variant of transcribe_handler: the override is not compared with the
\* active provider, every named provider is constructed anew
transcribe_handler_always_swaps(s, data, env) ==
    IF data = InvalidBody
    THEN Outcome(s, ErrorResponse(500, <<"invalid JSON">>))
    ELSE LET audio_path        == Get(data, "audio_path", None)
             provider_override == Get(data, "provider", None)
         IN
    IF ~Truthy(audio_path) \/ ~PathExists(audio_path)
    THEN Outcome(s, ErrorResponse(400, <<"Invalid audio path">>))
    ELSE LET swap == Truthy(provider_override)
             c    == create_provider(provider_override,
                                     get_provider_config(s, provider_override),
                                     s.made + 1, env.load_ok)
         IN
    IF swap /\ ~c.ok
    THEN Outcome(s, ErrorResponse(500, c.error.msg))
    ELSE LET s1 == IF swap THEN [s EXCEPT !.stt_provider = c.adapter, !.made = @ + 1] ELSE s
             t  == provider_transcribe(s1.stt_provider, audio_path, env.engine)
         IN
    IF ~t.ok
    THEN [Outcome(s1, ErrorResponse(500, t.error.msg)) EXCEPT !.used = s1.stt_provider, !.ran = TRUE]
    ELSE LET refined == s1.llm # NoLLM /\ Get(ConfigLLM(s1.config), "enabled", TRUE)
             p       == process(s1.llm, t.text, env.backend)
             transcription == IF refined THEN p.result ELSE t.text
             seen    == [used   |-> s1.stt_provider, ran |-> TRUE, heard |-> TRUE, raw |-> t.text,
                         refine |-> IF refined
                                    THEN [called |-> TRUE, text |-> t.text, backend |-> env.backend,
                                          result |-> p.result, raised |-> p.raised, calls |-> p.calls]
                                    ELSE NoRefine]
         IN  [s    |-> s1,
              resp |-> IF refined /\ p.raised
                       THEN ErrorResponse(500, <<"refinement failure">>)
                       ELSE Response(200, [transcription |-> transcription,
                                           provider      |-> get_current_provider(s1)]),
              used |-> seen.used, ran |-> seen.ran, heard |-> seen.heard, raw |-> seen.raw,
              refine |-> seen.refine]

\* Fault variant of transcribe_handler: process is handed the path of the
\* audio file in place of the transcription
transcribe_handler_refines_path(s, data, env) ==
    IF data = InvalidBody
    THEN Outcome(s, ErrorResponse(500, <<"invalid JSON">>))
    ELSE LET audio_path        == Get(data, "audio_path", None)
             provider_override == Get(data, "provider", None)
         IN
    IF ~Truthy(audio_path) \/ ~PathExists(audio_path)
    THEN Outcome(s, ErrorResponse(400, <<"Invalid audio path">>))
    ELSE LET swap == Truthy(provider_override) /\ provider_override # get_current_provider(s)
             c    == create_provider(provider_override,
                                     get_provider_config(s, provider_override),
                                     s.made + 1, env.load_ok)
         IN
    IF swap /\ ~c.ok
    THEN Outcome(s, ErrorResponse(500, c.error.msg))
    ELSE LET s1 == IF swap THEN [s EXCEPT !.stt_provider = c.adapter, !.made = @ + 1] ELSE s
             t  == provider_transcribe(s1.stt_provider, audio_path, env.engine)
         IN
    IF ~t.ok
    THEN [Outcome(s1, ErrorResponse(500, t.error.msg)) EXCEPT !.used = s1.stt_provider, !.ran = TRUE]
    ELSE LET refined == s1.llm # NoLLM /\ Get(ConfigLLM(s1.config), "enabled", TRUE)
             p       == process(s1.llm, <<audio_path>>, env.backend)
             transcription == IF refined THEN p.result ELSE t.text
             seen    == [used   |-> s1.stt_provider, ran |-> TRUE, heard |-> TRUE, raw |-> t.text,
                         refine |-> IF refined
                                    THEN [called |-> TRUE, text |-> <<audio_path>>, backend |-> env.backend,
                                          result |-> p.result, raised |-> p.raised, calls |-> p.calls]
                                    ELSE NoRefine]
         IN  [s    |-> s1,
              resp |-> IF refined /\ p.raised
                       THEN ErrorResponse(500, <<"refinement failure">>)
                       ELSE Response(200, [transcription |-> transcription,
                                           provider      |-> get_current_provider(s1)]),
              used |-> seen.used, ran |-> seen.ran, heard |-> seen.heard, raw |-> seen.raw,
              refine |-> seen.refine]

\* MultiModelTranscriptionServer.transcribe_handler
transcribe_handler(s, data, env) ==
    IF data = InvalidBody
    THEN Outcome(s, ErrorResponse(500, <<"invalid JSON">>))
    ELSE LET audio_path        == Get(data, "audio_path", None)
             provider_override == Get(data, "provider", None)
         IN
    IF ~Truthy(audio_path) \/ ~PathExists(audio_path)
    THEN Outcome(s, ErrorResponse(400, <<"Invalid audio path">>))
    ELSE LET swap == Truthy(provider_override) /\ provider_override # get_current_provider(s)
             c    == create_provider(provider_override,
                                     get_provider_config(s, provider_override),
                                     s.made + 1, env.load_ok)
         IN
    IF swap /\ ~c.ok
    THEN Outcome(s, ErrorResponse(500, c.error.msg))
    ELSE LET s1 == IF swap THEN [s EXCEPT !.stt_provider = c.adapter, !.made = @ + 1] ELSE s
             t  == provider_transcribe(s1.stt_provider, audio_path, env.engine)
         IN
    IF ~t.ok
    THEN [Outcome(s1, ErrorResponse(500, t.error.msg)) EXCEPT !.used = s1.stt_provider, !.ran = TRUE]
    ELSE LET refined == s1.llm # NoLLM /\ Get(ConfigLLM(s1.config), "enabled", TRUE)
             p       == process(s1.llm, t.text, env.backend)
             transcription == IF refined THEN p.result ELSE t.text
             seen    == [used   |-> s1.stt_provider, ran |-> TRUE, heard |-> TRUE, raw |-> t.text,
                         refine |-> IF refined
                                    THEN [called |-> TRUE, text |-> t.text, backend |-> env.backend,
                                          result |-> p.result, raised |-> p.raised, calls |-> p.calls]
                                    ELSE NoRefine]
         IN  [s    |-> s1,
              resp |-> IF refined /\ p.raised
                       THEN ErrorResponse(500, <<"refinement failure">>)
                       ELSE Response(200, [transcription |-> transcription,
                                           provider      |-> get_current_provider(s1)]),
              used |-> seen.used, ran |-> seen.ran, heard |-> seen.heard, raw |-> seen.raw,
              refine |-> seen.refine]

\* Fault variant of providers_handler: availability is found out by building
\* the provider anew, and the new object is kept as the active one
providers_handler_rebuilds(s) ==
    LET c  == create_provider("whisper", get_provider_config(s, "whisper"), s.made + 1, TRUE)
        s1 == [s EXCEPT !.stt_provider = c.adapter, !.made = @ + 1]
    IN  Outcome(s1, Response(200, [providers |-> [whisper |-> [available |-> c.ok,
                                                             description |-> "Local Whisper model"]],
                                   current   |-> get_current_provider(s1)]))

\* MultiModelTranscriptionServer.providers_handler
providers_handler(s) ==
    Outcome(s, Response(200, [providers |-> [whisper |-> [available |-> TRUE,
                                                          description |-> "Local Whisper model"]],
                              current   |-> get_current_provider(s)]))

\* the /health route of create_app
health_handler(s) == Outcome(s, Response(200, [status |-> "healthy"]))

----------------------------------------------------------------------------
(* The inputs: configuration documents and request bodies *)

\* a dictionary with key k bound to one of vals, or without the key
Opt(k, vals) == {EmptyBag} \cup {[x \in {k} |-> v] : v \in vals}

\* the documents yaml.safe_load can hand to Config: with and without each
\* section, with a model that cannot be loaded, with an unregistered provider
GoodTemplate == <<"F", ":", TextField>>
BadTemplate == <<OtherField, TextField>>
Documents ==
    {EmptyBag,
     [stt |-> [provider |-> "whisper"], whisper |-> [model |-> "base", language |-> "de"],
      llm |-> [enabled |-> FALSE]],
     [whisper |-> EmptyBag, llm |-> [enabled |-> TRUE, prompt |-> GoodTemplate]],
     [stt |-> EmptyBag, whisper |-> [model |-> "base"], llm |-> [prompt |-> BadTemplate]],
     [whisper |-> [model |-> "bogus"]],
     [stt |-> [provider |-> "unknown"], llm |-> [enabled |-> FALSE]],
     NullDocument}

Variants == {"lean", "templated"}

TranscribeBodies ==
    {InvalidBody} \cup
    {Update(a, b) : a \in Opt("audio_path", {"", "missing.wav", "sample.wav"}),
                    b \in Opt("provider", {"", "whisper", "unknown"})}

SwitchBodies == {InvalidBody} \cup Opt("provider", {"", "whisper", "unknown"})

ReloadBodies ==
    {InvalidBody, EmptyBag,
     [model |-> "base"],
     [language |-> "fr"],
     [model |-> "bogus", language |-> "fr"],
     [task |-> "translate", temperature |-> "0.5"],
     [model |-> "small", language |-> "fr", task |-> "translate", temperature |-> "0.5"]}

\* the environment of one /transcribe call; choices the handler cannot reach
\* (a model load without a whisper override, the engine after a 400, the
\* backend after an engine error or without a refiner) are fixed
DefaultBackend == [probe |-> "200", gen |-> "200", payload |-> DefaultPayload]
DefaultEngine == [raises |-> TRUE, text |-> <<>>, msg |-> <<"out of memory">>]
TranscribeEnvs(s, data) ==
    IF data = InvalidBody \/ Get(data, "audio_path", None) \notin ExistingFiles
    THEN {[load_ok |-> TRUE, engine |-> DefaultEngine, backend |-> DefaultBackend]}
    ELSE {e \in [load_ok : BOOLEAN, engine : EngineOutcomes, backend : Backends] :
             /\ Get(data, "provider", None) # "whisper" => e.load_ok
             /\ (e.engine.raises \/ s.llm = NoLLM) => e.backend = DefaultBackend}

----------------------------------------------------------------------------
(* The state machine *)

\* the engine options in force in a session: as the in-memory configuration
\* resolves them, as the active adapter holds them, and the model it loaded
Effective(s) ==
    [memory  |-> EngineOptions(ConfigWhisper(s.config).bag),
     adapter |-> EngineOptions(ProviderConfig(s.stt_provider, s.config)),
     loaded  |-> s.stt_provider.model]

NoEffective == [memory |-> EmptyBag, adapter |-> EmptyBag, loaded |-> None]

\* the answer before the last one, kept when it was a /reload_model answer
NoPrev == [op |-> "other", data |-> EmptyBag, status |-> 0, body |-> EmptyBag, after |-> NoEffective]

NoLast ==
    [op |-> "none", data |-> EmptyBag, status |-> 0, body |-> EmptyBag,
     used |-> NoProvider, ran |-> FALSE, heard |-> FALSE, raw |-> <<>>, refine |-> NoRefine,
     prev |-> NoPrev]

Posts == {"transcribe", "switch_provider", "reload_model"}

Init ==
    /\ phase = "boot"
    /\ config \in Documents
    /\ stt_provider = NoProvider
    /\ llm = NoLLM
    /\ made = 0
    /\ inflight = [op \in Posts |-> 0]
    /\ handled = 0
    /\ last = NoLast

Busy == inflight["transcribe"] + inflight["switch_provider"] + inflight["reload_model"]

\* the session and the record of the answer after a handler has run
Answer(op, data, r) ==
    /\ config' = r.s.config
    /\ stt_provider' = r.s.stt_provider
    /\ llm' = r.s.llm
    /\ made' = r.s.made
    /\ handled' = handled + 1
    /\ last' = [op |-> op, data |-> data, status |-> r.resp.status, body |-> r.resp.body,
                used |-> r.used, ran |-> r.ran, heard |-> r.heard, raw |-> r.raw,
                refine |-> r.refine,
                prev |-> IF last.op = "reload_model"
                         THEN [op |-> last.op, data |-> last.data, status |-> last.status,
                               body |-> last.body, after |-> Effective(Session)]
                         ELSE NoPrev]

\* create_app up to the registration of the routes; an exception of
\* initialize_models leaves no application
Startup ==
    /\ phase = "boot"
    /\ \E load_ok \in BOOLEAN, variant \in Variants :
          LET r == initialize_models(config, load_ok, variant) IN
          /\ phase' = IF r.ok THEN "serving" ELSE "failed"
          /\ stt_provider' = r.s.stt_provider
          /\ llm' = r.s.llm
          /\ made' = r.s.made
          /\ last' = [NoLast EXCEPT !.op = "startup",
                                    !.body = IF r.ok THEN EmptyBag
                                             ELSE [error |-> r.error.msg,
                                                   type  |-> r.error.type]]
    /\ UNCHANGED <<config, inflight, handled>>

\* a POST request reaches its handler, which suspends reading the body
Accept(op) ==
    /\ phase = "serving"
    /\ Busy < MaxInflight
    /\ handled + Busy < MaxRequests
    /\ inflight' = [inflight EXCEPT ![op] = @ + 1]
    /\ UNCHANGED <<phase, config, stt_provider, llm, made, handled, last>>

\* the body has been read and the handler runs to its response
Resume(op) ==
    /\ inflight[op] > 0
    /\ inflight' = [inflight EXCEPT ![op] = @ - 1]
    /\ UNCHANGED phase

Transcribe ==
    /\ Resume("transcribe")
    /\ \E data \in TranscribeBodies :
          \E env \in TranscribeEnvs(Session, data) :
             Answer("transcribe", data, transcribe_handler(Session, data, env))

SwitchProvider ==
    /\ Resume("switch_provider")
    /\ \E data \in SwitchBodies, load_ok \in BOOLEAN :
          Answer("switch_provider", data, switch_provider_handler(Session, data, load_ok))

ReloadModel ==
    /\ Resume("reload_model")
    /\ \E data \in ReloadBodies, load_ok \in BOOLEAN :
          Answer("reload_model", data, reload_model_handler(Session, data, load_ok))

\* the GET handlers never suspend
Providers ==
    /\ phase = "serving"
    /\ handled + Busy < MaxRequests
    /\ Answer("providers", EmptyBag, providers_handler(Session))
    /\ UNCHANGED <<phase, inflight>>

Health ==
    /\ phase = "serving"
    /\ handled + Busy < MaxRequests
    /\ Answer("health", EmptyBag, health_handler(Session))
    /\ UNCHANGED <<phase, inflight>>

Next ==
    \/ Startup
    \/ \E op \in Posts : Accept(op)
    \/ Transcribe
    \/ SwitchProvider
    \/ ReloadModel
    \/ Providers
    \/ Health

Spec == Init /\ [][Next]_vars

----------------------------------------------------------------------------
(* Properties *)

\* a handler has answered in this step
Answered == handled' = handled + 1

\* C1: a POST /switch_provider that names a provider and whose adapter
\* construction fails leaves stt_provider as it was before the request.
C1_FailedSwitchKeepsEngine ==
    [][(/\ Answered
        /\ last'.op = "switch_provider"
        /\ last'.data # InvalidBody
        /\ Get(last'.data, "provider", None) \notin {None, ""}
        /\ last'.status # 200)
       => stt_provider' = stt_provider]_vars

C1_Witness ==
    /\ last.op = "switch_provider"
    /\ Get(last.data, "provider", None) = "unknown"
    /\ last.status = 500
    /\ stt_provider.kind = "WhisperProvider"

\* C2: in every session state, a POST /reload_model whose adapter
\* construction fails (the model of the merged options cannot be loaded)
\* answers 500 and leaves stt_provider the adapter it was.
C2_FailedReloadKeepsEngine ==
    phase = "serving" =>
        \A data \in ReloadBodies \ {InvalidBody}, load_ok \in BOOLEAN :
            LET r == reload_model_handler(Session, data, load_ok) IN
            ~load_model(reload_config(Session, data).model, load_ok)
                => r.resp.status = 500 /\ r.s.stt_provider = stt_provider

C2_Witness ==
    /\ last.op = "reload_model"
    /\ last.data = [model |-> "bogus", language |-> "fr"]
    /\ last.status = 500
    /\ stt_provider.id = 1

\* C3: the engine options held by the active adapter are the options it was
\* constructed with, after any sequence of requests.
C3_OptionsFixedForLifetime ==
    phase = "serving" => Effective(Session).adapter = stt_provider.built

\* C4: once create_app has returned, stt_provider is never None, whatever
\* requests follow and however they end.
C4_EngineNeverNull ==
    phase = "serving" => stt_provider # NoProvider /\ stt_provider.kind = "WhisperProvider"

C4_Witness ==
    /\ phase = "serving"
    /\ handled >= 2
    /\ last.op = "switch_provider"
    /\ last.status = 500

\* C5: whenever /transcribe runs a transcription, under every interleaving
\* with swaps, the adapter it calls is a fully constructed one (its model is
\* loaded): the adapter that was active when the handler resumed or the one
\* the request itself installed, never None or a half-built object.
C5_TranscribeUsesWholeAdapter ==
    [][(Answered /\ last'.op = "transcribe" /\ last'.ran)
       => /\ last'.used # NoProvider
          /\ last'.used.model \in LoadableModels
          /\ last'.used \in {stt_provider, stt_provider'}]_vars

C5_Witness ==
    /\ last.op = "transcribe"
    /\ last.ran
    /\ last.status = 200
    /\ last.used = stt_provider
    /\ inflight["switch_provider"] = 1

\* what "the refinement tier is down" means for one call of process
BackendDown(b) ==
    \/ b.probe # "200"
    \/ b.gen # "200"
    \/ ~b.payload.json
    \/ Strip(Get(b.payload.doc, "response", <<>>)) = <<>>

RenderFails(self, text) == ~generate_prompt(self, text).ok

ProcessTexts == EngineTexts \cup {Strip(t) : t \in EngineTexts}

\* C6: process never raises, and returns its input unchanged whenever the
\* probe fails, the generation call fails or times out, the response is
\* unusable or empty after trimming, or the prompt cannot be rendered.
C6_ProcessFailsOpen ==
    /\ last.refine.called =>
          /\ ~last.refine.raised
          /\ (BackendDown(last.refine.backend) \/ RenderFails(llm, last.refine.text))
                => last.refine.result = last.refine.text
    /\ llm # NoLLM =>
          \A text \in ProcessTexts, b \in Backends :
              LET p == process(llm, text, b) IN
              /\ ~p.raised
              /\ (BackendDown(b) \/ RenderFails(llm, text)) => p.result = text

C6_Witness ==
    /\ last.refine.called
    /\ last.refine.backend.gen = "timeout"
    /\ last.refine.text = <<"h", "i">>
    /\ last.refine.result = <<"h", "i">>

\* C7: when the engine returned a text and the refinement tier is down,
\* POST /transcribe answers 200 with exactly the engine's text.
C7_RefinementDownStillAnswers ==
    (/\ last.op = "transcribe"
     /\ last.heard
     /\ last.refine.called
     /\ BackendDown(last.refine.backend))
    => last.status = 200 /\ last.body.transcription = last.raw

C7_Witness ==
    /\ last.op = "transcribe"
    /\ last.heard
    /\ last.refine.called
    /\ last.refine.backend.probe = "unreachable"
    /\ last.status = 200
    /\ last.body.transcription = <<"h", "i">>

\* C8: two consecutive POST /reload_model with the same overrides and the
\* same construction outcome leave the effective configuration (in-memory
\* options, adapter options, loaded model, response config) that the first
\* one left.
C8_ReloadIdempotent ==
    (/\ last.op = "reload_model"
     /\ last.prev.op = "reload_model"
     /\ last.data = last.prev.data
     /\ last.status = last.prev.status)
    => /\ Effective(Session) = last.prev.after
       /\ last.status = 200 => last.body.config = last.prev.body.config

C8_Witness ==
    /\ last.op = "reload_model"
    /\ last.prev.op = "reload_model"
    /\ last.data = [language |-> "fr"]
    /\ last.prev.data = [language |-> "fr"]
    /\ last.status = 200
    /\ last.prev.status = 200

\* C9: after a successful POST /reload_model, a following successful
\* POST /reload_model with an empty body yields the effective configuration
\* of the first, for every loaded document.
C9_ReloadWithoutOverridesKeepsLast ==
    (/\ last.op = "reload_model"
     /\ last.data = EmptyBag
     /\ last.status = 200
     /\ last.prev.op = "reload_model"
     /\ last.prev.status = 200)
    => /\ last.body.config = last.prev.body.config
       /\ Effective(Session) = last.prev.after

\* C10: a POST /transcribe whose audio_path is absent, empty or names no
\* existing file, and a POST /switch_provider whose provider is absent or
\* empty, answer 400, construct no adapter and leave the session unchanged.
C10_ValidationChangesNothing ==
    [][Answered =>
        /\ (/\ last'.op = "transcribe"
            /\ last'.data # InvalidBody
            /\ Get(last'.data, "audio_path", None) \notin ExistingFiles)
           => last'.status = 400 /\ UNCHANGED <<config, stt_provider, llm, made>>
        /\ (/\ last'.op = "switch_provider"
            /\ last'.data # InvalidBody
            /\ Get(last'.data, "provider", None) \in {None, ""})
           => last'.status = 400 /\ UNCHANGED <<config, stt_provider, llm, made>>]_vars

C10_Witness ==
    /\ last.op = "transcribe"
    /\ Get(last.data, "audio_path", None) = "missing.wav"
    /\ Get(last.data, "provider", None) = "unknown"
    /\ last.status = 400

\* an exception message, a sequence of pieces, contains the piece
Contains(msg, piece) == \E i \in 1..Len(msg) : msg[i] = piece

UnregisteredNames == {"unknown", "ollama", "Whisper", "whisper "}

\* C11: for every provider name that is not a registered kind,
\* STT.create_provider raises and yields no adapter (no silent default), and
\* POST /switch_provider answers 500 with an error that contains the name.
C11_UnknownProviderFails ==
    /\ phase = "serving" =>
          \A name \in UnregisteredNames, load_ok \in BOOLEAN :
              LET c == create_provider(name, get_provider_config(Session, name),
                                       made + 1, load_ok)
                  r == switch_provider_handler(Session, [provider |-> name], load_ok)
              IN  /\ ~c.ok
                  /\ c.adapter = NoProvider
                  /\ r.resp.status = 500
                  /\ Contains(r.resp.body.error, name)
                  /\ r.s.stt_provider = stt_provider
                  /\ r.s.made = made
    /\ (/\ last.op = "switch_provider"
        /\ last.data # InvalidBody
        /\ Get(last.data, "provider", None) \notin {None, "", "whisper"})
       => /\ last.status = 500
          /\ Contains(last.body.error, last.data.provider)

C11_Witness ==
    /\ last.op = "switch_provider"
    /\ last.data = [provider |-> "unknown"]
    /\ last.status = 500
    /\ last.body = [error |-> <<"Unknown STT provider: ", "unknown">>]
    /\ made = 1

\* the document switches the refinement off: llm.enabled is false
RefinementDisabled ==
    /\ "llm" \in DOMAIN config
    /\ "enabled" \in DOMAIN config["llm"]
    /\ config["llm"]["enabled"] = FALSE

\* C12: with refinement disabled in the configuration and whisper active, a
\* POST /transcribe for an existing file on which the engine succeeds answers
\* 200 with the adapter's text unmodified and provider "whisper", and process
\* is not called.
C12_DisabledRefinementPassesThrough ==
    /\ (phase = "serving" /\ RefinementDisabled) =>
          \A data \in TranscribeBodies \ {InvalidBody}, engine \in EngineOutcomes :
              LET env == [load_ok |-> TRUE, engine |-> engine, backend |-> DefaultBackend]
                  r   == transcribe_handler(Session, data, env)
                  t   == provider_transcribe(stt_provider, "sample.wav", engine)
              IN  (/\ Get(data, "audio_path", None) \in ExistingFiles
                   /\ Get(data, "provider", None) \in {None, "", "whisper"}
                   /\ ~engine.raises)
                  => /\ r.resp = Response(200, [transcription |-> t.text, provider |-> "whisper"])
                     /\ ~r.refine.called
                     /\ r.refine.calls = <<>>
    /\ (last.op = "transcribe" /\ last.heard /\ RefinementDisabled) =>
          /\ last.status = 200
          /\ last.body = [transcription |-> last.raw, provider |-> "whisper"]
          /\ ~last.refine.called
          /\ last.refine.calls = <<>>

C12_Witness ==
    /\ RefinementDisabled
    /\ last.op = "transcribe"
    /\ last.heard
    /\ last.raw = <<"h", "i">>
    /\ last.status = 200
    /\ last.body = [transcription |-> <<"h", "i">>, provider |-> "whisper"]
    /\ ~last.refine.called

\* C13: when the engine's transcribe call raises, POST /transcribe answers
\* 500 with the engine's own message as error, never 200 with a text put in
\* its place, and process is not called.
C13_EngineErrorSurfaces ==
    /\ phase = "serving" =>
          \A data \in TranscribeBodies \ {InvalidBody}, engine \in EngineOutcomes :
              LET env == [load_ok |-> TRUE, engine |-> engine, backend |-> DefaultBackend]
                  r   == transcribe_handler(Session, data, env)
              IN  (/\ Get(data, "audio_path", None) \in ExistingFiles
                   /\ Get(data, "provider", None) \in {None, "", "whisper"}
                   /\ engine.raises)
                  => /\ r.resp = ErrorResponse(500, engine.msg)
                     /\ r.ran
                     /\ ~r.refine.called
    /\ (last.op = "transcribe" /\ last.ran /\ ~last.heard) =>
          /\ last.status = 500
          /\ last.body.error \in EngineErrors
          /\ "transcription" \notin DOMAIN last.body
          /\ ~last.refine.called

C13_Witness ==
    /\ last.op = "transcribe"
    /\ last.ran
    /\ ~last.heard
    /\ last.status = 500
    /\ last.body = [error |-> <<"decode error">>]
    /\ llm # NoLLM
    /\ ~last.refine.called

\* the provider-override step of transcribe_handler on its own: the session
\* after a POST /transcribe for an existing file whose engine call raises
OverrideStep(s, p, load_ok) ==
    transcribe_handler(s, [audio_path |-> "sample.wav", provider |-> p],
                       [load_ok |-> load_ok, engine |-> DefaultEngine,
                        backend |-> DefaultBackend]).s

\* C14: a POST /switch_provider naming p has the same effect on the active
\* adapter (whether one is constructed, which one is active afterwards) as
\* the provider-override step of a POST /transcribe naming p.
C14_SwitchSameAsOverride ==
    [][(/\ Answered
        /\ last'.op = "switch_provider"
        /\ last'.data # InvalidBody
        /\ Truthy(Get(last'.data, "provider", None)))
       => \E load_ok \in BOOLEAN :
             LET o == OverrideStep(Session, last'.data.provider, load_ok) IN
             /\ made' = o.made
             /\ stt_provider' = o.stt_provider]_vars

\* the name of the adapter that is active, read off the adapter itself
ActiveName == IF stt_provider.kind = "WhisperProvider" THEN "whisper" ELSE "unknown"

\* a POST /transcribe for an existing file has been answered in this step
TranscribeAnswered ==
    /\ Answered
    /\ last'.op = "transcribe"
    /\ last'.data # InvalidBody
    /\ Get(last'.data, "audio_path", None) \in ExistingFiles

\* the request names a provider other than the active one
NamesOther ==
    /\ Get(last'.data, "provider", None) \notin {None, ""}
    /\ Get(last'.data, "provider", None) # ActiveName

\* C15 as stated: a POST /transcribe naming a provider other than the active
\* one constructs a new adapter, assigns it and transcribes with it; naming
\* the active one, or none, constructs nothing and keeps the adapter.
C15_OverrideBuildsAndRuns ==
    [][TranscribeAnswered =>
        IF NamesOther
        THEN /\ made' = made + 1
             /\ stt_provider'.id = made'
             /\ last'.ran
             /\ last'.used = stt_provider'
        ELSE /\ made' = made
             /\ stt_provider' = stt_provider]_vars

\* C15: a POST /transcribe naming a provider other than the active one
\* attempts the construction before any transcription: either the new
\* adapter is assigned and performs the transcription, or the construction
\* fails, the answer is 500, no transcription runs and the adapter stays;
\* naming the active provider, or none, constructs nothing and keeps the
\* adapter; a transcription that runs is performed by the adapter active
\* after the override step.
C15_OverrideBeforeTranscription ==
    [][TranscribeAnswered =>
        /\ NamesOther =>
              \/ /\ made' = made + 1
                 /\ stt_provider'.id = made'
                 /\ last'.ran
                 /\ last'.used = stt_provider'
              \/ /\ last'.status = 500
                 /\ ~last'.ran
                 /\ made' = made
                 /\ stt_provider' = stt_provider
        /\ ~NamesOther => made' = made /\ stt_provider' = stt_provider
        /\ last'.ran => last'.used = stt_provider']_vars

C15_Witness ==
    /\ last.op = "transcribe"
    /\ last.data = [audio_path |-> "sample.wav", provider |-> "unknown"]
    /\ last.status = 500
    /\ ~last.ran
    /\ stt_provider.id = made

\* C16: for an existing audio file and every result of the model,
\* WhisperProvider.transcribe returns a non-empty trimmed text or raises; it
\* never returns the empty string as a success.
C16_TranscribeNeverEmpty ==
    (last.op = "transcribe" /\ last.heard)
    => /\ last.raw # <<>>
       /\ last.raw = Strip(last.raw)

DefaultOptions ==
    [model |-> "small", language |-> "en", task |-> "transcribe", temperature |-> "0.0"]

\* C17: for every loaded document, missing sections resolve to empty bags
\* and defaults without a crash: without an stt section the startup provider
\* is whisper (so startup can fail only on the model load), without a whisper
\* section the engine is built with the default options, and without an llm
\* section startup and request handling complete.
C17_MissingSectionsResolveToDefaults ==
    /\ last.op = "startup" =>
          /\ ("stt" \notin DOMAIN config /\ phase = "failed")
                => last.body.type = "RuntimeError"
          /\ ("stt" \notin DOMAIN config /\ phase = "serving")
                => ActiveName = "whisper"
          /\ ("whisper" \notin DOMAIN config /\ phase = "serving")
                => stt_provider.built = DefaultOptions /\ stt_provider.model = "small"
          /\ ("llm" \notin DOMAIN config /\ phase = "failed")
                => last.body.type \in {"RuntimeError", "ValueError"}
    /\ (last.op = "transcribe" /\ last.heard /\ "llm" \notin DOMAIN config)
          => last.status = 200

OptionKeys == {"model", "language", "task", "temperature"}

\* the value the merge of /reload_model must give key k for body data
MergedOption(k, data) ==
    IF k \in DOMAIN data THEN data[k]
    ELSE IF "whisper" \in DOMAIN config /\ k \in DOMAIN config["whisper"]
    THEN config["whisper"][k]
    ELSE DefaultOptions[k]

\* C18: a POST /reload_model that succeeds gives each of the four options the
\* request's value if supplied, else the in-memory value, else the default;
\* the new adapter is constructed with exactly these values and the 200
\* response's config equals them.
C18_ReloadMergePrecedence ==
    phase = "serving" =>
        \A data \in ReloadBodies \ {InvalidBody}, load_ok \in BOOLEAN :
            LET r == reload_model_handler(Session, data, load_ok) IN
            r.resp.status = 200
            => /\ DOMAIN r.resp.body.config = OptionKeys
               /\ \A k \in OptionKeys : r.resp.body.config[k] = MergedOption(k, data)
               /\ r.s.stt_provider.built = r.resp.body.config
               /\ r.s.stt_provider.model = MergedOption("model", data)
               /\ r.s.stt_provider.id = made + 1
               /\ r.resp.body.provider = "whisper"

C18_Witness ==
    /\ last.op = "reload_model"
    /\ last.data = [language |-> "fr"]
    /\ last.status = 200
    /\ last.body.config = [model |-> "base", language |-> "fr", task |-> "transcribe",
                           temperature |-> "0.0"]
    /\ stt_provider.built = last.body.config
    /\ stt_provider.id = made

\* C19: in every state where no handler is mid-execution, after any sequence
\* of successful and failed /switch_provider and /reload_model requests, the
\* engine options resolved from the in-memory configuration equal the options
\* of the active adapter.
C19_ConfigMatchesEngine ==
    phase = "serving" => Effective(Session).memory = Effective(Session).adapter

----------------------------------------------------------------------------
(* LLMProcessor.process on its own: a processor constructed from any llm
   section, enabled or not, called with any text against any backend *)

\* every behaviour of the backend, the ones the server model folds together
\* included: a body behind a failed probe or behind a non-200 status
ProcessBackends == [probe : Probes, gen : Gens, payload : Payloads]

InitProcess ==
    /\ phase = "unit"
    /\ config \in Documents \ {NullDocument}
    /\ llm \in {LLMProcessor(ConfigLLM(config), variant) : variant \in Variants}
    /\ stt_provider = NoProvider
    /\ made = 0
    /\ inflight = [op \in Posts |-> 0]
    /\ handled = 0
    /\ last = NoLast

\* one call of self.llm.process(text)
ProcessCall ==
    /\ phase = "unit"
    /\ handled < MaxRequests
    /\ \E text \in ProcessTexts, backend \in ProcessBackends :
          LET p == process(llm, text, backend) IN
          last' = [NoLast EXCEPT !.op = "process",
                                 !.refine = [called |-> TRUE, text |-> text,
                                             backend |-> backend, result |-> p.result,
                                             raised |-> p.raised, calls |-> p.calls]]
    /\ handled' = handled + 1
    /\ UNCHANGED <<phase, config, stt_provider, llm, made, inflight>>

NextProcess == ProcessCall

SpecProcess == InitProcess /\ [][NextProcess]_vars

\* C20: one execution of process makes no backend call when enabled is
\* false; otherwise the probe is its first call and a failed probe is its
\* only call; there is at most one generation call, and only after a probe
\* that succeeded.
C20_ProbeBeforeGeneration ==
    last.refine.called =>
        LET calls   == last.refine.calls
            enabled == Get(llm.config, "enabled", TRUE)
            probed  == last.refine.backend.probe = "200"
        IN  /\ ~enabled => calls = <<>>
            /\ enabled => Len(calls) >= 1 /\ calls[1] = "tags"
            /\ (enabled /\ ~probed) => calls = <<"tags">>
            /\ Cardinality({i \in 1..Len(calls) : calls[i] = "generate"}) <= 1
            /\ \A i \in 1..Len(calls) :
                  calls[i] = "generate" => i = 2 /\ calls[1] = "tags" /\ probed

C20_Witness ==
    /\ last.op = "process"
    /\ last.refine.called
    /\ Get(llm.config, "enabled", TRUE)
    /\ last.refine.backend.probe = "503"
    /\ last.refine.calls = <<"tags">>
    /\ handled = 2

\* the trimmed response field of the generation answer, empty when the
\* answer is no JSON or has no such field
TrimmedResponse(b) ==
    IF b.payload.json THEN Strip(Get(b.payload.doc, "response", <<>>)) ELSE <<>>

\* C21: process returns something other than its input only when refinement
\* is enabled, the probe answers 200, the generation call is made and
\* answers 200, and the trimmed response field is non-empty; then the result
\* is that trimmed response, and in every other case it is the input text.
C21_ProcessResult ==
    last.refine.called =>
        LET b    == last.refine.backend
            good == /\ Get(llm.config, "enabled", TRUE)
                    /\ b.probe = "200"
                    /\ last.refine.calls = <<"tags", "generate">>
                    /\ b.gen = "200"
                    /\ TrimmedResponse(b) # <<>>
        IN  /\ ~last.refine.raised
            /\ good => last.refine.result = TrimmedResponse(b)
            /\ ~good => last.refine.result = last.refine.text

C21_Witness ==
    /\ last.op = "process"
    /\ last.refine.called
    /\ last.refine.text = <<"h", "i">>
    /\ last.refine.backend.probe = "200"
    /\ last.refine.backend.gen = "200"
    /\ last.refine.result = <<"H", "i", ".">>

\* C22: GET /providers and GET /health leave the active adapter, the refiner
\* and the in-memory configuration unchanged; /providers answers with current
\* the kind name of the adapter active at the request, and /health answers
\* 200 with status "healthy" in every session state.
C22_GetsAreReadOnly ==
    [][Answered =>
        /\ last'.op = "providers"
              => /\ UNCHANGED <<config, stt_provider, llm, made>>
                 /\ last'.status = 200
                 /\ last'.body.current = ActiveName
                 /\ DOMAIN last'.body.providers = {"whisper"}
        /\ last'.op = "health"
              => /\ UNCHANGED <<config, stt_provider, llm, made>>
                 /\ last'.status = 200
                 /\ last'.body = [status |-> "healthy"]]_vars

C22_Witness ==
    /\ last.op = "providers"
    /\ last.status = 200
    /\ last.body.current = "whisper"
    /\ handled = 2
    /\ stt_provider.id = 2

\* C23: with the single registered provider kind a POST /transcribe never
\* changes the active adapter: an override naming the active provider
\* attempts no swap, and one naming an unregistered kind fails in the
\* construction, before the assignment, with 500 and without a transcription.
C23_TranscribeKeepsEngine ==
    [][(Answered /\ last'.op = "transcribe")
       => /\ stt_provider' = stt_provider
          /\ made' = made
          /\ ActiveName = "whisper"
          /\ (TranscribeAnswered /\ NamesOther)
                => /\ last'.status = 500
                   /\ ~last'.ran
                   /\ Contains(last'.body.error, last'.data.provider)]_vars

C23_Witness ==
    /\ last.op = "transcribe"
    /\ last.data = [audio_path |-> "sample.wav", provider |-> "whisper"]
    /\ last.status = 200
    /\ last.ran
    /\ last.used = stt_provider
    /\ stt_provider.id = 1
    /\ made = 1

\* C24: under every interleaving of requests, a 200 answer of POST
\* /transcribe names in provider the kind of the adapter that performed this
\* request's transcription, which is the adapter active when the answer is
\* built, and the text handed to process and the text answered are this
\* request's: nothing of another request comes between the override, the
\* transcription, the refinement and the answer.
C24_AnswerIsOfOneRequest ==
    [][(Answered /\ last'.op = "transcribe" /\ last'.status = 200)
       => /\ last'.ran /\ last'.heard
          /\ last'.used = stt_provider'
          /\ last'.used \in {stt_provider} \cup
                {a \in {stt_provider'} : a.id = made' /\ made' = made + 1}
          /\ last'.body.provider =
                (IF last'.used.kind = "WhisperProvider" THEN "whisper" ELSE "unknown")
          /\ IF last'.refine.called
             THEN /\ last'.refine.text = last'.raw
                  /\ last'.body.transcription = last'.refine.result
             ELSE last'.body.transcription = last'.raw
          /\ UNCHANGED <<config, llm>>]_vars

C24_Witness ==
    /\ last.op = "transcribe"
    /\ last.status = 200
    /\ last.refine.called
    /\ last.refine.result = <<"H", "i", ".">>
    /\ last.body = [transcription |-> <<"H", "i", ".">>, provider |-> "whisper"]
    /\ inflight["reload_model"] = 1

\* C25: the refiner is fixed at startup: initialize_models constructs it,
\* from the llm section, if and only if that section does not disable it,
\* and afterwards no request, successful or failed, replaces it or changes
\* its configuration (the object's own options and the llm section it was
\* given).
C25_RefinerFixedAtStartup ==
    [][/\ (phase = "boot" /\ phase' = "serving")
             => /\ (llm' # NoLLM) <=> ~RefinementDisabled
                /\ llm' # NoLLM => llm'.config = Get(config, "llm", EmptyBag)
       /\ phase = "serving"
             => /\ llm' = llm
                /\ Get(config', "llm", EmptyBag) = Get(config, "llm", EmptyBag)
                /\ phase' = "serving"]_vars

C25_Witness ==
    /\ phase = "serving"
    /\ handled = 2
    /\ last.op = "reload_model"
    /\ last.status = 200
    /\ last.prev.op = "reload_model"
    /\ last.prev.status = 500
    /\ llm # NoLLM
    /\ llm.config = [enabled |-> TRUE, prompt |-> GoodTemplate]

====
